---------------------------- MODULE Spec2Model ----------------------------
(***************************************************************************)
(* Model of pkg/email (Client.Send, Client.sendUsingTLS) of Authente-.     *)
(*                                                                         *)
(* A Send call is a sequence of blocking calls into net/smtp and           *)
(* crypto/tls.  Each such call is one step of the model; the relay and the *)
(* network decide its outcome, so the outcome is a nondeterministic        *)
(* choice.  Straight-line code between two blocking calls belongs to the   *)
(* step that precedes it.                                                  *)
(*                                                                         *)
(* Strings that the code assembles (envelope, error texts) are sequences   *)
(* of tokens, and formatting is concatenation of token sequences.          *)
(***************************************************************************)
EXTENDS Integers, Sequences, FiniteSets, TLC

(***************************************************************************)
(* Bounds of the model.                                                    *)
(***************************************************************************)
MaxRcpt == 3
NumCalls == 2
MaxHash == 2

Calls == 1..NumCalls
Addrs == {"a@x.io", "b@x.io"}
Hosts == {"smtp.x.io"}
Ports == {25, 465, 587}
Users == {"user@x.io"}
Secrets == {"s3cret"}
Froms == {"", "noreply@x.io"}
Subjects == {<<"Your verification code">>}
Bodies == {<<"<p>482913</p>">>}
Causes == {"EOF", "554 rejected"}

\* Values of BCRYPT_COST, as characters.
EnvValues ==
    {<<>>, <<"4">>, <<"1", "2">>, <<"3", "2">>, <<"+", "5">>, <<"-", "3">>,
     <<"x">>, <<"1", "2", "x">>, <<" ", "7">>, <<"-">>}
Passwords == {"hunter2"}

\* Subjects and bodies with line breaks and header-like text in them.
AnySubjects == Subjects \cup {<<"Hi", "\r\n", "To", ": ", "evil@x.io">>}
AnyBodies == Bodies \cup {<<"To", ": ", "x@x.io", "\r\n", "<p>hi</p>">>}

RECURSIVE SeqsUpTo(_, _)
SeqsUpTo(S, n) ==
    IF n = 0 THEN {<<>>}
    ELSE LET shorter == SeqsUpTo(S, n - 1)
         IN  shorter \cup {Append(s, x) : s \in {t \in shorter : Len(t) = n - 1}, x \in S}

ToLists == SeqsUpTo(Addrs, MaxRcpt)

(***************************************************************************)
(* Program constants.                                                      *)
(***************************************************************************)
ImplicitTLSPort == 465

VARIABLES
    cfg,        \* the Client: Host, Port, Username, Password, From
    callers,    \* the calls that may invoke Send in this behaviour
    pc,         \* pc[c]: where call c stands
    to,         \* to[c]: the recipient list argument
    subject,    \* subject[c]: the subject argument, as tokens
    body,       \* body[c]: the body argument, as tokens
    entry,      \* entry[c]: the public operation the caller invoked
    from,       \* from[c]: the local `from`
    msg,        \* msg[c]: the rendered envelope (msg.String())
    i,          \* i[c]: position of the recipient loop of sendUsingTLS
    conn,       \* conn[c]: the connection handle call c holds (0: none)
    ret,        \* ret[c]: what Send returned (<<>> is nil)
    attempts,   \* attempts[c]: the transport invocations of call c, with
                \* their arguments and the operations each performed
    conns,      \* every connection ever opened, in order of opening
    warnLog,    \* what logger.Warn was given
    environ,    \* the process environment: BCRYPT_COST
    hashLog     \* the calls of bcrypt.GenerateFromPassword made by Hash

vars == <<cfg, callers, pc, to, subject, body, entry, from, msg, i, conn, ret, attempts,
          conns, warnLog, environ, hashLog>>

Nil == <<>>

(***************************************************************************)
(* Pure parts of Send.                                                     *)
(***************************************************************************)

\* fmt.Errorf("<prefix>: %w", cause): the prefix followed by the cause's text.
Wrap(prefix, cause) == <<prefix>> \o cause

\* fmt.Errorf("rcpt to %s failed: %w", addr, cause)
WrapRcpt(a, cause) == <<"rcpt to ", a, " failed: ">> \o cause

SenderOfUsername(c) == c.Username

\* Lines 40-43: the From override, or the username when it is empty.
SenderOf(c) == IF c.From = "" THEN c.Username ELSE c.From

\* strings.Join(to, ",")
RECURSIVE Join(_)
Join(s) ==
    IF Len(s) = 0 THEN <<>>
    ELSE IF Len(s) = 1 THEN <<s[1]>>
    ELSE <<s[1], ",">> \o Join(Tail(s))

\* Lines 46-51: the headers map, in the order its keys were inserted.
Headers(f, t, s) ==
    << <<"From", <<f>> >>,
       <<"To", Join(t)>>,
       <<"Subject", s>>,
       <<"MIME-Version", <<"1.0">> >>,
       <<"Content-Type", <<"text/html; charset=\"utf-8\"">> >> >>

\* `for k, v := range headers`: the map has five entries, which the runtime
\* keeps in one eight-slot group in insertion order; an iteration starts at a
\* random slot and wraps around.  The orders a build produces are therefore
\* the rotations of the insertion order, one per starting entry.
HeaderOrders ==
    {[k \in 1..5 |-> ((k + r - 1) % 5) + 1] : r \in 0..4}

RECURSIVE HeaderLines(_, _, _)
HeaderLines(h, order, k) ==
    IF k > Len(order) THEN <<>>
    ELSE <<h[order[k]][1], ": ">> \o h[order[k]][2] \o <<"\r\n">>
         \o HeaderLines(h, order, k + 1)

\* Lines 53-58: the header lines, a blank line, the body.
BuildEnvelope(f, t, s, b, order) ==
    HeaderLines(Headers(f, t, s), order, 1) \o <<"\r\n">> \o b

\* strconv.Itoa for a port number: its decimal digits.
RECURSIVE Itoa(_)
Itoa(n) ==
    LET digit == <<"0", "1", "2", "3", "4", "5", "6", "7", "8", "9">>[(n % 10) + 1]
    IN  IF n < 10 THEN digit ELSE Itoa(n \div 10) \o digit

\* net.JoinHostPort(c.Host, strconv.Itoa(c.Port))
JoinHostPort(h, p) == <<h, ":", Itoa(p)>>

\* smtp.PlainAuth("", c.Username, c.Password, c.Host)
PlainAuth(identity, username, password, host) ==
    [identity |-> identity, username |-> username, password |-> password, host |-> host]

SelectStrategyOpportunistic(port) == "Opportunistic"

SelectStrategySubmission(port) ==
    IF port = 587 THEN "Opportunistic" ELSE "ImplicitTLS"

\* Line 65: the transport the port selects.
SelectStrategy(port) ==
    IF port = ImplicitTLSPort THEN "ImplicitTLS" ELSE "Opportunistic"

(***************************************************************************)
(* Transport invocations and connections.                                  *)
(***************************************************************************)

\* One invocation of a transport with the arguments it was given.
Invocation(fn, a, au, f, t, m) ==
    [fn |-> fn, addr |-> a, auth |-> au, from |-> f, to |-> t, msg |-> m,
     trace |-> <<>>, done |-> FALSE, err |-> <<>>]

\* The arguments of line 66 and line 70: locals of Send.
FirstArgs(fn, f, t, m) ==
    Invocation(fn, JoinHostPort(cfg.Host, cfg.Port),
               PlainAuth("", cfg.Username, cfg.Password, cfg.Host), f, t, m)

FallbackArgsUsername(first) ==
    Invocation("sendUsingTLS", first.addr, first.auth, first.auth.username, first.to, first.msg)

\* The arguments of line 72: the same locals as the first attempt's.
FallbackArgs(first) ==
    Invocation("sendUsingTLS", first.addr, first.auth, first.from, first.to, first.msg)

Cur(c) == Len(attempts[c])

\* Append operation `op` and its outcome to the running invocation of call c.
Traced(c, op, arg, ok) ==
    [attempts EXCEPT ![c][Cur(c)].trace = Append(@, [op |-> op, arg |-> arg, ok |-> ok])]

\* The running invocation of call c returned err.
Ended(tr, c, err) ==
    [tr EXCEPT ![c][Len(tr[c])].done = TRUE, ![c][Len(tr[c])].err = err]

NewConn(c, a, tls) ==
    [owner |-> c, addr |-> a, tls |-> tls, open |-> TRUE, committed |-> 0]

NotClosed(cs, k) == cs

\* defer conn.Close() / defer client.Close(): the connection is released.
DeferredClose(cs, k) == [cs EXCEPT ![k].open = FALSE]

\* No public operation invoked yet.
NoEntry == [fn |-> "", to |-> "", arg |-> "", done |-> FALSE, result |-> Nil]

\* BCRYPT_COST is not set.
Unset == [set |-> FALSE, value |-> <<>>]

\* The dispatcher after NewClient, with the callers `cs`.
EmailInit(cs) ==
    /\ cfg \in [Host : Hosts, Port : Ports, Username : Users, Password : Secrets, From : Froms]
    /\ callers = cs
    /\ pc = [c \in Calls |-> "idle"]
    /\ to = [c \in Calls |-> <<>>]
    /\ subject = [c \in Calls |-> <<>>]
    /\ body = [c \in Calls |-> <<>>]
    /\ entry = [c \in Calls |-> NoEntry]
    /\ from = [c \in Calls |-> ""]
    /\ msg = [c \in Calls |-> <<>>]
    /\ i = [c \in Calls |-> 0]
    /\ conn = [c \in Calls |-> 0]
    /\ ret = [c \in Calls |-> Nil]
    /\ attempts = [c \in Calls |-> <<>>]
    /\ conns = <<>>
    /\ warnLog = <<>>

InitWith(cs) ==
    /\ EmailInit(cs)
    /\ environ = Unset
    /\ hashLog = <<>>

(***************************************************************************)
(* Send, lines 35-75.                                                      *)
(***************************************************************************)

FallbackResultJoined(firstErr, secondErr) ==
    IF secondErr = Nil THEN Nil ELSE firstErr \o secondErr

\* The value Send returns on the Opportunistic path when SendMail failed,
\* line 72: whatever sendUsingTLS returns.
FallbackResult(firstErr, secondErr) == secondErr

NoRecipientsUnchecked(t) == FALSE

\* Line 36: the precondition of Send.
NoRecipients(t) == Len(t) = 0

\* Lines 35-70: the precondition, the sender, the envelope, the address and
\* the credentials, up to the first blocking call of the selected transport.
SendCall(c, t, s, b) ==
    /\ c \in callers
    /\ pc[c] = "idle"
    /\ to' = [to EXCEPT ![c] = t]
    /\ subject' = [subject EXCEPT ![c] = s]
    /\ body' = [body EXCEPT ![c] = b]
    /\ IF NoRecipients(t)
          THEN /\ ret' = [ret EXCEPT ![c] = <<"no recipients specified">>]
               /\ pc' = [pc EXCEPT ![c] = "returned"]
               /\ UNCHANGED <<from, msg, attempts>>
          ELSE \E order \in HeaderOrders :
                 LET f == SenderOf(cfg)
                     m == BuildEnvelope(f, t, s, b, order)
                     fn == IF SelectStrategy(cfg.Port) = "ImplicitTLS"
                             THEN "sendUsingTLS" ELSE "SendMail"
                 IN  /\ from' = [from EXCEPT ![c] = f]
                     /\ msg' = [msg EXCEPT ![c] = m]
                     /\ attempts' = [attempts EXCEPT ![c] = <<FirstArgs(fn, f, t, m)>>]
                     /\ pc' = [pc EXCEPT ![c] =
                                  IF fn = "sendUsingTLS" THEN "tls_dial" ELSE "sm_dial"]
                     /\ UNCHANGED ret
    /\ UNCHANGED <<cfg, callers, environ, hashLog, i, conn, conns, warnLog>>

\* A caller invokes Send with a subject of `ss` and a body of `bs`.
SendWith(c, ss, bs) ==
    \E t \in ToLists, s \in ss, b \in bs :
        /\ SendCall(c, t, s, b)
        /\ entry' = [entry EXCEPT ![c] = [NoEntry EXCEPT !.fn = "Send"]]

\* A caller invokes Send.
Send(c) == SendWith(c, Subjects, Bodies)

\* A caller invokes Send with any subject and body.
SendAny(c) == SendWith(c, AnySubjects, AnyBodies)

(***************************************************************************)
(* The convenience senders, lines 134-146.                                 *)
(***************************************************************************)
Codes == {"482913", "https://x/reset/abc"}

\* Line 136.
OTPSubject == <<"Your verification code">>

\* Line 137: fmt.Sprintf of the template with the code.
OTPBody(code) ==
    <<"<p>Your verification code is <strong>", code,
      "</strong>. It will expire in 10 minutes.</p>">>

\* Line 143.
ResetSubject == <<"Password reset request">>

\* Line 144: fmt.Sprintf of the template with the code or link.
ResetBody(codeOrLink) ==
    <<"<p>We received a request to reset your password. Use the code below or click the link:</p><p><strong>",
      codeOrLink, "</strong></p>">>

\* Lines 135-138: SendOTP, up to the first blocking call of its Send.
SendOTP(c) ==
    \E a \in Addrs, code \in Codes :
        /\ SendCall(c, <<a>>, OTPSubject, OTPBody(code))
        /\ entry' = [entry EXCEPT ![c] =
                        [NoEntry EXCEPT !.fn = "SendOTP", !.to = a, !.arg = code]]

\* Lines 142-145: SendPasswordReset, up to the first blocking call of its Send.
SendPasswordReset(c) ==
    \E a \in Addrs, codeOrLink \in Codes :
        /\ SendCall(c, <<a>>, ResetSubject, ResetBody(codeOrLink))
        /\ entry' = [entry EXCEPT ![c] =
                        [NoEntry EXCEPT !.fn = "SendPasswordReset", !.to = a, !.arg = codeOrLink]]

SendResultSwallowed(err) == Nil

\* `return c.Send(...)`, lines 138 and 145: the value of Send.
SendResult(err) == err

\* Lines 138 and 145: the convenience sender returns when its Send has.
WrapperReturn(c) ==
    /\ pc[c] = "returned"
    /\ entry[c].fn \in {"SendOTP", "SendPasswordReset"}
    /\ ~entry[c].done
    /\ entry' = [entry EXCEPT ![c].done = TRUE, ![c].result = SendResult(ret[c])]
    /\ UNCHANGED <<cfg, callers, pc, to, subject, body, from, msg, i, conn, ret, attempts,
                   conns, warnLog, environ, hashLog>>

FallbackRetriesSendMail(c, tr, err) ==
    /\ warnLog' = Append(warnLog, [call |-> c,
                                   text |-> "smtp.SendMail failed, falling back to direct TLS",
                                   error |-> err])
    /\ attempts' = [Ended(tr, c, err) EXCEPT ![c] =
                       Append(@, IF Len(tr[c]) = 1
                                   THEN [FallbackArgs(tr[c][1]) EXCEPT !.fn = "SendMail"]
                                   ELSE FallbackArgs(tr[c][1]))]
    /\ pc' = [pc EXCEPT ![c] = IF Len(tr[c]) = 1 THEN "sm_dial" ELSE "tls_dial"]
    /\ conn' = [conn EXCEPT ![c] = 0]

\* Lines 70-72, SendMail returned err /= nil: the warning, then the call of
\* sendUsingTLS.  `tr` is the attempts with the failed operation recorded.
Fallback(c, tr, err) ==
    /\ warnLog' = Append(warnLog, [call |-> c,
                                   text |-> "smtp.SendMail failed, falling back to direct TLS",
                                   error |-> err])
    /\ attempts' = [Ended(tr, c, err) EXCEPT ![c] = Append(@, FallbackArgs(tr[c][1]))]
    /\ pc' = [pc EXCEPT ![c] = "tls_dial"]
    /\ conn' = [conn EXCEPT ![c] = 0]

\* The stages of smtp.SendMail after its connection is open.
SendMailStages ==
    {"hello", "starttls", "auth", "mail", "rcpt", "data", "write", "close", "quit"}

\* smtp.SendMail, line 70, first half: it dials the address.
SendMailDial(c) ==
    /\ pc[c] = "sm_dial"
    /\ \/ /\ conns' = Append(conns, NewConn(c, attempts[c][Cur(c)].addr, FALSE))
          /\ conn' = [conn EXCEPT ![c] = Len(conns) + 1]
          /\ attempts' = Traced(c, "dial", "", TRUE)
          /\ pc' = [pc EXCEPT ![c] = "sm_session"]
          /\ UNCHANGED warnLog
       \/ \E cause \in Causes :
             /\ Fallback(c, Traced(c, "dial", "", FALSE), <<cause>>)
             /\ UNCHANGED conns
    /\ UNCHANGED <<cfg, callers, subject, body, entry, environ, hashLog, to, from, msg, i, ret>>

\* smtp.SendMail, line 70, second half: the session on the open connection.
\* It ends in success (line 74), or fails at one of its stages; SendMail
\* closes its connection before it returns.  A failure of QUIT comes after
\* the data phase was closed, that is after the relay took the message.
SendMailSession(c) ==
    /\ pc[c] = "sm_session"
    /\ \/ /\ conns' = [conns EXCEPT ![conn[c]].open = FALSE, ![conn[c]].committed = 1]
          /\ attempts' = Ended(Traced(c, "quit", "", TRUE), c, Nil)
          /\ ret' = [ret EXCEPT ![c] = Nil]
          /\ pc' = [pc EXCEPT ![c] = "returned"]
          /\ UNCHANGED <<warnLog, conn>>
       \/ \E stage \in SendMailStages, cause \in Causes :
             /\ conns' = [conns EXCEPT ![conn[c]].open = FALSE,
                                       ![conn[c]].committed = IF stage = "quit" THEN 1 ELSE 0]
             /\ Fallback(c, Traced(c, stage, "", FALSE), <<cause>>)
             /\ UNCHANGED ret
    /\ UNCHANGED <<cfg, callers, subject, body, entry, environ, hashLog, to, from, msg, i>>

(***************************************************************************)
(* sendUsingTLS, lines 78-132.                                             *)
(***************************************************************************)

\* A return of sendUsingTLS with err, and with it of Send (line 66 or 72):
\* the deferred Close calls run when a connection was opened.  `tr` is the
\* attempts with the last operation recorded.
Return(c, tr, err) ==
    /\ attempts' = Ended(tr, c, err)
    /\ ret' = [ret EXCEPT ![c] =
                 IF Len(tr[c]) = 2 THEN FallbackResult(tr[c][1].err, err) ELSE err]
    /\ pc' = [pc EXCEPT ![c] = "returned"]
    /\ conns' = IF conn[c] = 0 THEN conns ELSE DeferredClose(conns, conn[c])

\* The next position after operation `op` succeeded.
Proceed(c, op, arg, next) ==
    /\ attempts' = Traced(c, op, arg, TRUE)
    /\ pc' = [pc EXCEPT ![c] = next]
    /\ UNCHANGED <<ret, conns>>

TLSDialPooled(c) ==
    /\ pc[c] = "tls_dial"
    /\ LET a == attempts[c][Cur(c)].addr
           pool == {k \in DOMAIN conns : conns[k].open /\ conns[k].tls /\ conns[k].addr = a}
       IN  \/ /\ IF pool = {}
                   THEN /\ conns' = Append(conns, NewConn(c, a, TRUE))
                        /\ conn' = [conn EXCEPT ![c] = Len(conns) + 1]
                   ELSE /\ conn' = [conn EXCEPT ![c] = CHOOSE k \in pool : TRUE]
                        /\ UNCHANGED conns
              /\ attempts' = Traced(c, "dial", "", TRUE)
              /\ pc' = [pc EXCEPT ![c] = "tls_newclient"]
              /\ UNCHANGED ret
           \/ \E cause \in Causes :
                 /\ Return(c, Traced(c, "dial", "", FALSE), Wrap("tls dial: ", <<cause>>))
                 /\ UNCHANGED conn
    /\ UNCHANGED <<cfg, callers, subject, body, entry, environ, hashLog, to, from, msg, i, warnLog>>

\* Lines 85-89: tls.Dial.
TLSDial(c) ==
    /\ pc[c] = "tls_dial"
    /\ \/ /\ conns' = Append(conns, NewConn(c, attempts[c][Cur(c)].addr, TRUE))
          /\ conn' = [conn EXCEPT ![c] = Len(conns) + 1]
          /\ attempts' = Traced(c, "dial", "", TRUE)
          /\ pc' = [pc EXCEPT ![c] = "tls_newclient"]
          /\ UNCHANGED ret
       \/ \E cause \in Causes :
             /\ Return(c, Traced(c, "dial", "", FALSE), Wrap("tls dial: ", <<cause>>))
             /\ UNCHANGED conn
    /\ UNCHANGED <<cfg, callers, subject, body, entry, environ, hashLog, to, from, msg, i, warnLog>>

\* Lines 91-95: smtp.NewClient reads the greeting.
TLSNewClient(c) ==
    /\ pc[c] = "tls_newclient"
    /\ \/ Proceed(c, "newclient", "", "tls_extension")
       \/ \E cause \in Causes :
             Return(c, Traced(c, "newclient", "", FALSE), Wrap("new smtp client: ", <<cause>>))
    /\ UNCHANGED <<cfg, callers, subject, body, entry, environ, hashLog, to, from, msg, i, conn, warnLog>>

\* Lines 97-98: auth is never nil (PlainAuth returns a value); the relay
\* advertises AUTH or it does not.
TLSExtension(c) ==
    /\ pc[c] = "tls_extension"
    /\ \E advertised \in BOOLEAN :
         Proceed(c, "extension", advertised, IF advertised THEN "tls_auth" ELSE "tls_mail")
    /\ UNCHANGED <<cfg, callers, subject, body, entry, environ, hashLog, to, from, msg, i, conn, warnLog>>

TLSAuthFailureIgnored(c) ==
    /\ pc[c] = "tls_auth"
    /\ \E ok \in BOOLEAN :
         /\ attempts' = Traced(c, "auth", attempts[c][Cur(c)].auth, ok)
         /\ pc' = [pc EXCEPT ![c] = "tls_mail"]
         /\ UNCHANGED <<ret, conns>>
    /\ UNCHANGED <<cfg, callers, subject, body, entry, environ, hashLog, to, from, msg, i, conn, warnLog>>

\* Lines 99-101: client.Auth.
TLSAuth(c) ==
    /\ pc[c] = "tls_auth"
    /\ \/ Proceed(c, "auth", attempts[c][Cur(c)].auth, "tls_mail")
       \/ \E cause \in Causes :
             Return(c, Traced(c, "auth", attempts[c][Cur(c)].auth, FALSE),
                    Wrap("auth failed: ", <<cause>>))
    /\ UNCHANGED <<cfg, callers, subject, body, entry, environ, hashLog, to, from, msg, i, conn, warnLog>>

\* Lines 105-109: client.Mail(from); the recipient loop starts after it (a
\* loop over no recipient falls through to client.Data).
TLSMail(c) ==
    /\ pc[c] = "tls_mail"
    /\ \/ /\ Proceed(c, "mail", attempts[c][Cur(c)].from,
                     IF Len(attempts[c][Cur(c)].to) = 0 THEN "tls_data" ELSE "tls_rcpt")
          /\ i' = [i EXCEPT ![c] = 1]
       \/ /\ \E cause \in Causes :
               Return(c, Traced(c, "mail", attempts[c][Cur(c)].from, FALSE),
                      Wrap("mail from failed: ", <<cause>>))
          /\ UNCHANGED i
    /\ UNCHANGED <<cfg, callers, subject, body, entry, environ, hashLog, to, from, msg, conn, warnLog>>

TLSRcptSkipRejected(c) ==
    /\ pc[c] = "tls_rcpt"
    /\ LET rcpts == attempts[c][Cur(c)].to
           a == rcpts[i[c]]
       IN  \E ok \in BOOLEAN :
             /\ attempts' = Traced(c, "rcpt", a, ok)
             /\ pc' = [pc EXCEPT ![c] = IF i[c] = Len(rcpts) THEN "tls_data" ELSE "tls_rcpt"]
             /\ i' = [i EXCEPT ![c] = i[c] + 1]
             /\ UNCHANGED <<ret, conns>>
    /\ UNCHANGED <<cfg, callers, subject, body, entry, environ, hashLog, to, from, msg, conn, warnLog>>

TLSRcptFirstOnly(c) ==
    /\ pc[c] = "tls_rcpt"
    /\ LET rcpts == attempts[c][Cur(c)].to
           a == rcpts[i[c]]
       IN  \/ /\ Proceed(c, "rcpt", a, "tls_data")
              /\ i' = [i EXCEPT ![c] = i[c] + 1]
           \/ /\ \E cause \in Causes :
                   Return(c, Traced(c, "rcpt", a, FALSE), WrapRcpt(a, <<cause>>))
              /\ UNCHANGED i
    /\ UNCHANGED <<cfg, callers, subject, body, entry, environ, hashLog, to, from, msg, conn, warnLog>>

\* Lines 109-113: one client.Rcpt of the loop over `to`.
TLSRcpt(c) ==
    /\ pc[c] = "tls_rcpt"
    /\ LET rcpts == attempts[c][Cur(c)].to
           a == rcpts[i[c]]
       IN  \/ /\ Proceed(c, "rcpt", a, IF i[c] = Len(rcpts) THEN "tls_data" ELSE "tls_rcpt")
              /\ i' = [i EXCEPT ![c] = i[c] + 1]
           \/ /\ \E cause \in Causes :
                   Return(c, Traced(c, "rcpt", a, FALSE), WrapRcpt(a, <<cause>>))
              /\ UNCHANGED i
    /\ UNCHANGED <<cfg, callers, subject, body, entry, environ, hashLog, to, from, msg, conn, warnLog>>

\* Lines 115-118: client.Data.
TLSData(c) ==
    /\ pc[c] = "tls_data"
    /\ \/ Proceed(c, "data", "", "tls_write")
       \/ \E cause \in Causes :
             Return(c, Traced(c, "data", "", FALSE), Wrap("data command failed: ", <<cause>>))
    /\ UNCHANGED <<cfg, callers, subject, body, entry, environ, hashLog, to, from, msg, i, conn, warnLog>>

TLSWriteReportedAsData(c) ==
    /\ pc[c] = "tls_write"
    /\ \/ Proceed(c, "write", attempts[c][Cur(c)].msg, "tls_close")
       \/ \E cause \in Causes :
             Return(c, Traced(c, "write", attempts[c][Cur(c)].msg, FALSE),
                    Wrap("data command failed: ", <<cause>>))
    /\ UNCHANGED <<cfg, callers, subject, body, entry, environ, hashLog, to, from, msg, i, conn, warnLog>>

\* Lines 119-122: wc.Write(msg).
TLSWrite(c) ==
    /\ pc[c] = "tls_write"
    /\ \/ Proceed(c, "write", attempts[c][Cur(c)].msg, "tls_close")
       \/ \E cause \in Causes :
             Return(c, Traced(c, "write", attempts[c][Cur(c)].msg, FALSE),
                    Wrap("write message failed: ", <<cause>>))
    /\ UNCHANGED <<cfg, callers, subject, body, entry, environ, hashLog, to, from, msg, i, conn, warnLog>>

TLSCloseErrorIgnored(c) ==
    /\ pc[c] = "tls_close"
    /\ \E ok \in BOOLEAN :
         /\ attempts' = Traced(c, "close", "", ok)
         /\ conns' = [conns EXCEPT ![conn[c]].committed = IF ok THEN @ + 1 ELSE @]
         /\ pc' = [pc EXCEPT ![c] = "tls_quit"]
         /\ UNCHANGED ret
    /\ UNCHANGED <<cfg, callers, subject, body, entry, environ, hashLog, to, from, msg, i, conn, warnLog>>

\* Lines 123-125: wc.Close ends the data phase; when the relay accepts it,
\* the message is committed.
TLSClose(c) ==
    /\ pc[c] = "tls_close"
    /\ \/ /\ attempts' = Traced(c, "close", "", TRUE)
          /\ conns' = [conns EXCEPT ![conn[c]].committed = @ + 1]
          /\ pc' = [pc EXCEPT ![c] = "tls_quit"]
          /\ UNCHANGED ret
       \/ \E cause \in Causes :
             Return(c, Traced(c, "close", "", FALSE), Wrap("close writer failed: ", <<cause>>))
    /\ UNCHANGED <<cfg, callers, subject, body, entry, environ, hashLog, to, from, msg, i, conn, warnLog>>

TLSQuitReportedAsClose(c) ==
    /\ pc[c] = "tls_quit"
    /\ \/ Return(c, Traced(c, "quit", "", TRUE), Nil)
       \/ \E cause \in Causes :
             Return(c, Traced(c, "quit", "", FALSE), Wrap("close writer failed: ", <<cause>>))
    /\ UNCHANGED <<cfg, callers, subject, body, entry, environ, hashLog, to, from, msg, i, conn, warnLog>>

\* Lines 127-131: client.Quit, then the return.
TLSQuit(c) ==
    /\ pc[c] = "tls_quit"
    /\ \/ Return(c, Traced(c, "quit", "", TRUE), Nil)
       \/ \E cause \in Causes :
             Return(c, Traced(c, "quit", "", FALSE), Wrap("quit failed: ", <<cause>>))
    /\ UNCHANGED <<cfg, callers, subject, body, entry, environ, hashLog, to, from, msg, i, conn, warnLog>>

\* The steps of the transports.
Transport(c) ==
    \/ SendMailDial(c)
    \/ SendMailSession(c)
    \/ TLSDial(c)
    \/ TLSNewClient(c)
    \/ TLSExtension(c)
    \/ TLSAuth(c)
    \/ TLSMail(c)
    \/ TLSRcpt(c)
    \/ TLSData(c)
    \/ TLSWrite(c)
    \/ TLSClose(c)
    \/ TLSQuit(c)

Step(c) ==
    \/ Send(c)
    \/ Transport(c)

Next == \E c \in Calls : Step(c)

\* One caller.
Init == InitWith({1})

Spec == Init /\ [][Next]_vars

\* Every operation on the relay returns: a call that is inside a transport
\* takes its next step.
FairSpec == Spec /\ \A c \in Calls : WF_vars(Transport(c))

\* The convenience senders: one caller invokes SendOTP or SendPasswordReset.
NextWrap ==
    \E c \in Calls :
        \/ SendOTP(c)
        \/ SendPasswordReset(c)
        \/ Transport(c)
        \/ WrapperReturn(c)

SpecWrap == Init /\ [][NextWrap]_vars

\* Two callers invoke Send on one Client from their own goroutines; the
\* steps of their calls interleave in every order.  Call c sends to one
\* address of its own, the relay fails with one cause, SendMail fails at its
\* dial, at STARTTLS or at QUIT, and the headers come in one order.
InitConc == InitWith({1, 2})

ConcRecipient(c) == IF c % 2 = 1 THEN "a@x.io" ELSE "b@x.io"

ConcCause == "EOF"

ConcOrder == [k \in 1..5 |-> k]

ConcStages == {"dial", "starttls", "quit"}

ConcInputs ==
    \A c \in Calls :
        /\ msg[c] # <<>> =>
               msg[c] = BuildEnvelope(from[c], to[c], subject[c], body[c], ConcOrder)
        /\ \A k \in DOMAIN attempts[c] :
               attempts[c][k].err # <<>> =>
                   /\ attempts[c][k].err[Len(attempts[c][k].err)] = ConcCause
                   /\ attempts[c][k].fn = "SendMail" =>
                          attempts[c][k].trace[Len(attempts[c][k].trace)].op \in ConcStages

SendConc(c) ==
    \E t \in {<<>>, <<ConcRecipient(c)>>}, s \in Subjects, b \in Bodies :
        /\ SendCall(c, t, s, b)
        /\ entry' = [entry EXCEPT ![c] = [NoEntry EXCEPT !.fn = "Send"]]

NextConc ==
    \E c \in Calls :
        \/ SendConc(c) /\ ConcInputs'
        \/ SendMailDial(c) /\ ConcInputs'
        \/ SendMailSession(c) /\ ConcInputs'
        \/ TLSDial(c) /\ ConcInputs'
        \/ TLSNewClient(c) /\ ConcInputs'
        \/ TLSExtension(c) /\ ConcInputs'
        \/ TLSAuth(c) /\ ConcInputs'
        \/ TLSMail(c) /\ ConcInputs'
        \/ TLSRcpt(c) /\ ConcInputs'
        \/ TLSData(c) /\ ConcInputs'
        \/ TLSWrite(c) /\ ConcInputs'
        \/ TLSClose(c) /\ ConcInputs'
        \/ TLSQuit(c) /\ ConcInputs'

SpecConc == InitConc /\ [][NextConc]_vars

(***************************************************************************)
(* The password hashing utility, src/unnamed/part_000.                     *)
(***************************************************************************)

\* bcrypt.DefaultCost, line 11.
DefaultCost == 10

\* os.Getenv: the value, or the empty string when the variable is not set.
Getenv(e) == IF e.set THEN e.value ELSE <<>>

Digits == <<"0", "1", "2", "3", "4", "5", "6", "7", "8", "9">>

IsDigit(ch) == \E d \in DOMAIN Digits : Digits[d] = ch

DigitValue(ch) == (CHOOSE d \in DOMAIN Digits : Digits[d] = ch) - 1

\* The digits of a decimal numeral after its optional sign.
Unsigned(v) == IF Len(v) > 0 /\ v[1] \in {"+", "-"} THEN Tail(v) ELSE v

\* strconv.Atoi returns no error: an optional sign and at least one digit.
AtoiOk(v) == Len(Unsigned(v)) > 0 /\ \A j \in DOMAIN Unsigned(v) : IsDigit(Unsigned(v)[j])

RECURSIVE Magnitude(_, _)
Magnitude(d, acc) ==
    IF Len(d) = 0 THEN acc ELSE Magnitude(Tail(d), 10 * acc + DigitValue(d[1]))

\* strconv.Atoi: the value of a numeral.
Atoi(v) ==
    IF v[1] = "-" THEN 0 - Magnitude(Unsigned(v), 0) ELSE Magnitude(Unsigned(v), 0)

HashCostDefault(e) == DefaultCost

\* Lines 11-16: the cost Hash passes on.
HashCost(e) ==
    IF Getenv(e) # <<>> /\ AtoiOk(Getenv(e)) THEN Atoi(Getenv(e)) ELSE DefaultCost

emailVars == <<cfg, callers, pc, to, subject, body, entry, from, msg, i, conn, ret,
               attempts, conns, warnLog>>

\* Lines 10-23: Hash reads BCRYPT_COST and calls bcrypt.GenerateFromPassword,
\* which returns a digest or an error.
Hash ==
    /\ Len(hashLog) < MaxHash
    /\ \E password \in Passwords, ok \in BOOLEAN :
         hashLog' = Append(hashLog, [password |-> password, env |-> environ,
                                     cost |-> HashCost(environ), ok |-> ok])
    /\ UNCHANGED <<emailVars, environ>>

\* The process sets BCRYPT_COST.
Setenv ==
    /\ \E v \in EnvValues : environ' = [set |-> TRUE, value |-> v]
    /\ UNCHANGED <<emailVars, hashLog>>

\* The process unsets BCRYPT_COST.
Unsetenv ==
    /\ environ' = Unset
    /\ UNCHANGED <<emailVars, hashLog>>

InitHash ==
    /\ EmailInit({})
    /\ environ \in {Unset} \cup {[set |-> TRUE, value |-> v] : v \in EnvValues}
    /\ hashLog = <<>>

NextHash == Hash \/ Setenv \/ Unsetenv

SpecHash == InitHash /\ [][NextHash]_vars

\* The message builder alone: every caller invokes Send, with any subject
\* and body, and the calls are followed up to the rendered envelope.
InitBuild == InitWith(Calls)

NextBuild == \E c \in Calls : SendAny(c)

SpecBuild == InitBuild /\ [][NextBuild]_vars

(***************************************************************************)
(* Properties.                                                             *)
(***************************************************************************)

\* The invocations of sendUsingTLS among the transport invocations of call c.
TLSRuns(c) == {k \in DOMAIN attempts[c] : attempts[c][k].fn = "sendUsingTLS"}

\* The positions of operation `op` in a trace.
Ops(tr, op) == {j \in DOMAIN tr : tr[j].op = op}

\* The connections call c opened.
ConnsOf(c) == {k \in DOMAIN conns : conns[k].owner = c}

\* C1: a Send with an empty recipient list has returned the precondition
\* failure, has invoked no transport (neither SendMail nor sendUsingTLS) and
\* has opened no connection, whatever the configuration.
C1_EmptyNoNetwork ==
    \A c \in Calls :
        (pc[c] # "idle" /\ Len(to[c]) = 0) =>
            /\ pc[c] = "returned"
            /\ ret[c] = <<"no recipients specified">>
            /\ attempts[c] = <<>>
            /\ ConnsOf(c) = {}
            /\ \A k \in DOMAIN warnLog : warnLog[k].call # c

C1_Witness ==
    \E c \in Calls : pc[c] = "returned" /\ to[c] = <<>> /\ cfg.Port # ImplicitTLSPort

\* C2: for a Send with recipients, on port 465 sendUsingTLS is the first and
\* only transport invoked and no plain connection is opened; on any other
\* port the first transport invoked is SendMail.
C2_PortSelectsTransport ==
    \A c \in Calls :
        (pc[c] # "idle" /\ Len(to[c]) > 0) =>
            /\ Len(attempts[c]) >= 1
            /\ IF cfg.Port = 465
                 THEN /\ Len(attempts[c]) = 1
                      /\ attempts[c][1].fn = "sendUsingTLS"
                      /\ \A k \in ConnsOf(c) : conns[k].tls
                 ELSE attempts[c][1].fn = "SendMail"

C2_Witness ==
    \E c \in Calls :
        /\ cfg.Port = 465
        /\ pc[c] = "returned"
        /\ Len(attempts[c]) = 1
        /\ Len(attempts[c][1].trace) > 1

\* The first transport invocation of call c was SendMail and it failed.
FirstFailed(c) ==
    /\ Len(attempts[c]) >= 1
    /\ attempts[c][1].fn = "SendMail"
    /\ attempts[c][1].done
    /\ attempts[c][1].err # Nil

\* C3: on a port other than 465, once SendMail has failed (at whatever
\* stage, for whatever cause), sendUsingTLS is the next transport invoked,
\* with the address, sender, envelope, recipient list and credentials of the
\* SendMail invocation, which are those Send computed; its connection, once
\* dialled, is to that address.
C3_FallbackSameArguments ==
    \A c \in Calls :
        FirstFailed(c) =>
            /\ cfg.Port # 465
            /\ Len(attempts[c]) = 2
            /\ LET a1 == attempts[c][1]
                   a2 == attempts[c][2]
               IN  /\ a2.fn = "sendUsingTLS"
                   /\ a2.addr = a1.addr
                   /\ a2.from = a1.from /\ a2.from = from[c]
                   /\ a2.msg = a1.msg /\ a2.msg = msg[c]
                   /\ a2.to = a1.to /\ a2.to = to[c]
                   /\ a2.auth = a1.auth
                   /\ \/ pc[c] = "tls_dial" /\ a2.trace = <<>>
                      \/ Len(a2.trace) >= 1 /\ a2.trace[1].op = "dial"
                   /\ \A k \in ConnsOf(c) : conns[k].addr = a1.addr

C3_Witness ==
    \E c \in Calls :
        /\ FirstFailed(c)
        /\ cfg.From # ""
        /\ to[c] = <<"b@x.io", "a@x.io">>
        /\ attempts[c][1].trace[Len(attempts[c][1].trace)].op = "starttls"
        /\ Len(attempts[c]) = 2
        /\ Len(attempts[c][2].trace) >= 4

\* The prefixes of the errors sendUsingTLS builds.
TLSPrefixes ==
    {"tls dial: ", "new smtp client: ", "auth failed: ", "mail from failed: ", "rcpt to ",
     "data command failed: ", "write message failed: ", "close writer failed: ",
     "quit failed: "}

\* C4: when SendMail failed and the fallback has returned, Send returns the
\* fallback's result: its error when it failed (an error sendUsingTLS built,
\* not SendMail's), nil when its QUIT succeeded.  SendMail's error was given
\* to the warning log.
C4_FallbackErrorReturned ==
    \A c \in Calls :
        (pc[c] = "returned" /\ FirstFailed(c)) =>
            /\ Len(attempts[c]) = 2
            /\ LET first == attempts[c][1].err
                   a2 == attempts[c][2]
                   last == a2.trace[Len(a2.trace)]
               IN  /\ a2.done
                   /\ ret[c] = a2.err
                   /\ (ret[c] = Nil) <=> (last.op = "quit" /\ last.ok)
                   /\ ret[c] # Nil => (ret[c][1] \in TLSPrefixes /\ ret[c] # first /\ ~last.ok)
                   /\ \E k \in DOMAIN warnLog :
                        warnLog[k].call = c /\ warnLog[k].error = first
                   /\ Cardinality({k \in DOMAIN warnLog : warnLog[k].call = c}) = 1

C4_Witness ==
    \E c \in Calls :
        /\ pc[c] = "returned"
        /\ FirstFailed(c)
        /\ attempts[c][1].err = <<"EOF">>
        /\ ret[c] = <<"auth failed: ", "554 rejected">>

\* C5: in sendUsingTLS, a rejected recipient, at whatever position of the
\* list, is the last operation of the invocation: the recipients before it
\* were declared in list order and accepted, no later recipient is declared,
\* the data phase is not opened, nothing is written or committed, and the
\* invocation has failed with the error that names the rejected address.
C5_RejectedRecipientAborts ==
    \A c \in Calls : \A k \in TLSRuns(c) :
        LET a == attempts[c][k]
            tr == a.trace
            rcpt == Ops(tr, "rcpt")
        IN  \A j \in rcpt :
                LET pos == Cardinality({h \in rcpt : h <= j})
                IN  /\ pos <= Len(a.to)
                    /\ tr[j].arg = a.to[pos]
                    /\ ~tr[j].ok =>
                         /\ j = Len(tr)
                         /\ \A h \in rcpt : h < j => tr[h].ok
                         /\ Ops(tr, "data") = {} /\ Ops(tr, "write") = {} /\ Ops(tr, "close") = {}
                         /\ a.done
                         /\ Len(a.err) >= 3 /\ a.err[1] = "rcpt to " /\ a.err[2] = a.to[pos]
                         /\ pc[c] = "returned" /\ ret[c] = a.err
                         /\ conns[conn[c]].committed = 0

C5_Witness ==
    \E c \in Calls : \E k \in TLSRuns(c) :
        LET tr == attempts[c][k].trace
        IN  /\ to[c] = <<"a@x.io", "b@x.io", "a@x.io">>
            /\ Len(tr) >= 2
            /\ tr[Len(tr)] = [op |-> "rcpt", arg |-> "b@x.io", ok |-> FALSE]
            /\ tr[Len(tr) - 1] = [op |-> "rcpt", arg |-> "a@x.io", ok |-> TRUE]
            /\ ret[c] = <<"rcpt to ", "b@x.io", " failed: ", "554 rejected">>

\* C6: when Send has returned, every connection the call opened is closed,
\* and a connection of sendUsingTLS is open only while that invocation runs.
C6_ConnectionsReleased ==
    \A c \in Calls :
        /\ pc[c] = "returned" => \A k \in ConnsOf(c) : ~conns[k].open
        /\ \A k \in ConnsOf(c) :
             (conns[k].tls /\ conns[k].open) =>
                 (k = conn[c] /\ ~attempts[c][Cur(c)].done
                  /\ attempts[c][Cur(c)].fn = "sendUsingTLS")

C6_Witness ==
    \E c \in Calls :
        /\ pc[c] = "returned"
        /\ ret[c] # Nil /\ ret[c][1] = "data command failed: "
        /\ conn[c] # 0 /\ conns[conn[c]].tls /\ ~conns[conn[c]].open

\* The number of times the relay took the envelope of call c, over all the
\* connections of the call.
Commits(c) ==
    LET RECURSIVE Sum(_)
        Sum(S) == IF S = {} THEN 0
                  ELSE LET k == CHOOSE x \in S : TRUE
                       IN  conns[k].committed + Sum(S \ {k})
    IN  Sum(ConnsOf(c))

\* C7: one Send commits the envelope to the relay at most once, over the
\* SendMail attempt and the sendUsingTLS fallback together.
C7_AtMostOneCommit ==
    \A c \in Calls : Commits(c) <= 1

\* C8: in sendUsingTLS, a failed QUIT comes after exactly one write and one
\* successful close of the data phase, ends the invocation and the call with
\* an error that starts with "quit failed: ", and leaves the message
\* committed once; no transport is invoked after it.  An invocation that
\* failed at any other stage returns an error that does not start so.
C8_QuitFailureDistinct ==
    \A c \in Calls : \A k \in TLSRuns(c) :
        LET a == attempts[c][k]
            tr == a.trace
        IN  /\ \A j \in Ops(tr, "quit") :
                 ~tr[j].ok =>
                     /\ j = Len(tr) /\ k = Len(attempts[c])
                     /\ a.done /\ a.err # Nil /\ a.err[1] = "quit failed: "
                     /\ pc[c] = "returned" /\ ret[c] = a.err
                     /\ Cardinality(Ops(tr, "write")) = 1
                     /\ Cardinality(Ops(tr, "close")) = 1
                     /\ \A h \in Ops(tr, "close") : tr[h].ok /\ h < j
                     /\ conns[conn[c]].committed = 1
            /\ (a.done /\ a.err # Nil /\ tr[Len(tr)].op # "quit") =>
                   (a.err[1] # "quit failed: " /\ a.err[1] \in TLSPrefixes)

C8_Witness ==
    \E c \in Calls :
        /\ pc[c] = "returned"
        /\ ret[c] = <<"quit failed: ", "EOF">>
        /\ conns[conn[c]].committed = 1
        /\ Len(to[c]) = 2

\* C9: in sendUsingTLS, authentication is attempted at most once, with the
\* configured credentials, right after the relay advertised AUTH and before
\* the sender is declared; when it fails the invocation ends with an
\* "auth failed: " error and no MAIL, RCPT or DATA is issued.  When AUTH is
\* not advertised the next operation is the sender declaration.
C9_AuthBeforeMail ==
    \A c \in Calls : \A k \in TLSRuns(c) :
        LET a == attempts[c][k]
            tr == a.trace
        IN  /\ Cardinality(Ops(tr, "auth")) <= 1
            /\ \A j \in Ops(tr, "auth") :
                 /\ j > 1 /\ tr[j - 1].op = "extension" /\ tr[j - 1].arg
                 /\ tr[j].arg = [identity |-> "", username |-> cfg.Username,
                                 password |-> cfg.Password, host |-> cfg.Host]
                 /\ \A h \in Ops(tr, "mail") : h > j
                 /\ ~tr[j].ok =>
                      /\ j = Len(tr)
                      /\ a.done /\ a.err # Nil /\ a.err[1] = "auth failed: "
                      /\ pc[c] = "returned" /\ ret[c] = a.err
                      /\ Ops(tr, "mail") = {} /\ Ops(tr, "rcpt") = {} /\ Ops(tr, "data") = {}
            /\ \A j \in Ops(tr, "extension") :
                 j < Len(tr) => tr[j + 1].op = (IF tr[j].arg THEN "auth" ELSE "mail")
            /\ \A j \in Ops(tr, "mail") :
                 j > 1 /\ (tr[j - 1].op = "auth" => tr[j - 1].ok)

C9_Witness ==
    \E c \in Calls : \E k \in TLSRuns(c) :
        LET tr == attempts[c][k].trace
        IN  /\ pc[c] = "returned"
            /\ ret[c] = <<"auth failed: ", "554 rejected">>
            /\ tr[Len(tr)].op = "auth"
            /\ ~tr[Len(tr)].ok

\* The error prefix that identifies each stage of sendUsingTLS.
StagePrefix ==
    [dial |-> "tls dial: ", newclient |-> "new smtp client: ", auth |-> "auth failed: ",
     mail |-> "mail from failed: ", rcpt |-> "rcpt to ", data |-> "data command failed: ",
     write |-> "write message failed: ", close |-> "close writer failed: ",
     quit |-> "quit failed: "]

\* C10: in sendUsingTLS, a failed operation is the last one of the
\* invocation, no stage runs twice (a recipient declaration once per
\* recipient), and the returned error starts with the prefix of the stage that
\* failed and of no other stage, followed for a recipient by its address; an
\* invocation that ended without error had no failed operation.
C10_FirstFailureIdentified ==
    /\ \A s1, s2 \in DOMAIN StagePrefix : s1 # s2 => StagePrefix[s1] # StagePrefix[s2]
    /\ \A c \in Calls : \A k \in TLSRuns(c) :
        LET a == attempts[c][k]
            tr == a.trace
        IN  /\ \A j \in DOMAIN tr :
                 ~tr[j].ok =>
                     /\ j = Len(tr)
                     /\ tr[j].op \in DOMAIN StagePrefix
                     /\ a.done /\ a.err # Nil
                     /\ a.err[1] = StagePrefix[tr[j].op]
                     /\ \A s \in DOMAIN StagePrefix \ {tr[j].op} : a.err[1] # StagePrefix[s]
                     /\ tr[j].op = "rcpt" => a.err[2] = tr[j].arg
                     /\ a.err[Len(a.err)] \in Causes
                     /\ pc[c] = "returned" /\ ret[c] = a.err
            /\ \A s \in DOMAIN StagePrefix \ {"rcpt"} : Cardinality(Ops(tr, s)) <= 1
            /\ Cardinality(Ops(tr, "rcpt")) <= Len(a.to)
            /\ Cardinality(Ops(tr, "extension")) <= 1
            /\ a.done => ((a.err = Nil) <=> (\A j \in DOMAIN tr : tr[j].ok))

C10_Witness ==
    \E c \in Calls : \E k \in TLSRuns(c) :
        LET tr == attempts[c][k].trace
        IN  /\ pc[c] = "returned"
            /\ ret[c] = <<"write message failed: ", "EOF">>
            /\ tr[Len(tr)].op = "write"
            /\ Len(to[c]) = 3

(***************************************************************************)
(* Reading an envelope back: its lines, its header section, the values of  *)
(* a header field.                                                         *)
(***************************************************************************)
RECURSIVE SplitLines(_, _, _)
SplitLines(m, k, cur) ==
    IF k > Len(m) THEN <<cur>>
    ELSE IF m[k] = "\r\n" THEN <<cur>> \o SplitLines(m, k + 1, <<>>)
    ELSE SplitLines(m, k + 1, Append(cur, m[k]))

\* The lines before the first empty line.
HeaderSection(m) ==
    LET ls == SplitLines(m, 1, <<>>)
        blank == {j \in DOMAIN ls : ls[j] = <<>>}
        end == IF blank = {} THEN Len(ls) + 1
               ELSE CHOOSE j \in blank : \A h \in blank : j <= h
    IN  SubSeq(ls, 1, end - 1)

IsField(line, name) == Len(line) >= 2 /\ line[1] = name /\ line[2] = ": "

RECURSIVE FieldValuesFrom(_, _, _)
FieldValuesFrom(hs, name, k) ==
    IF k > Len(hs) THEN <<>>
    ELSE (IF IsField(hs[k], name) THEN <<SubSeq(hs[k], 3, Len(hs[k]))>> ELSE <<>>)
         \o FieldValuesFrom(hs, name, k + 1)

\* The values of the header lines `name: ...` of envelope m, in order.
FieldValues(m, name) == FieldValuesFrom(HeaderSection(m), name, 1)

\* C11: the envelope of a Send with recipients has exactly one To header,
\* and its value is the recipients joined by commas in input order, for
\* every subject and body.
C11_ExactlyOneTo ==
    \A c \in Calls :
        msg[c] # <<>> => FieldValues(msg[c], "To") = <<Join(to[c])>>

\* C12: two Send calls with the same recipient list, subject and body (and
\* the one configuration) render the same envelope, header order included.
C12_EnvelopeDeterministic ==
    \A c1, c2 \in Calls :
        (/\ msg[c1] # <<>> /\ msg[c2] # <<>>
         /\ to[c1] = to[c2] /\ subject[c1] = subject[c2] /\ body[c1] = body[c2])
        => msg[c1] = msg[c2]

\* C13: the sender of a Send is the From override when it is not empty and
\* the username otherwise; it is the value of the envelope's From header,
\* the sender argument of every transport invocation of the call (SendMail
\* and sendUsingTLS) and the address sendUsingTLS declares as sender.
C13_SenderAddress ==
    \A c \in Calls :
        attempts[c] # <<>> =>
            LET sender == IF cfg.From # "" THEN cfg.From ELSE cfg.Username
            IN  /\ from[c] = sender
                /\ FieldValues(msg[c], "From") = << <<sender>> >>
                /\ \A k \in DOMAIN attempts[c] : attempts[c][k].from = sender
                /\ \A k \in TLSRuns(c) :
                     \A j \in Ops(attempts[c][k].trace, "mail") :
                         attempts[c][k].trace[j].arg = sender

C13_Witness ==
    \E c \in Calls :
        /\ cfg.From = "noreply@x.io"
        /\ Len(attempts[c]) = 2
        /\ Ops(attempts[c][2].trace, "mail") # {}
        /\ from[c] = "noreply@x.io"

\* C15: a Send opens at most two connections, of which at most one is open
\* at a time: on port 465 at most one, a TLS one; on another port at most one
\* plain and one TLS connection, the TLS one only after SendMail has failed
\* and its connection is closed.  None is open once Send has returned.
C15_AtMostTwoConnections ==
    \A c \in Calls :
        LET cs == ConnsOf(c)
            plain == {k \in cs : ~conns[k].tls}
            secure == {k \in cs : conns[k].tls}
        IN  /\ Cardinality(cs) <= 2
            /\ Cardinality({k \in cs : conns[k].open}) <= 1
            /\ Cardinality(plain) <= 1 /\ Cardinality(secure) <= 1
            /\ cfg.Port = 465 => plain = {}
            /\ (cfg.Port # 465 /\ secure # {}) =>
                   (FirstFailed(c) /\ \A h \in plain : ~conns[h].open /\ \A k \in secure : h < k)
            /\ pc[c] = "returned" => \A k \in cs : ~conns[k].open

C15_Witness ==
    \E c \in Calls :
        /\ cfg.Port = 587
        /\ Cardinality(ConnsOf(c)) = 2
        /\ pc[c] = "returned"

\* The operations of a trace, by name.
OpNames(tr) == [j \in DOMAIN tr |-> tr[j].op]

\* The arguments of the operations `op` of a trace, in order.
RECURSIVE ArgsOf(_, _, _)
ArgsOf(tr, op, k) ==
    IF k > Len(tr) THEN <<>>
    ELSE (IF tr[k].op = op THEN <<tr[k].arg>> ELSE <<>>) \o ArgsOf(tr, op, k + 1)

Repeat(x, n) == [j \in 1..n |-> x]

\* C17: a sendUsingTLS that ended without error performed exactly: dial,
\* greeting, the AUTH query, authentication if and only if advertised, one
\* sender declaration, one recipient declaration per recipient in list
\* order, data open, the write of the envelope, data close, QUIT.  In every
\* invocation the data phase is opened only after the sender and all the
\* recipients of the list were accepted.
C17_ProtocolOrder ==
    \A c \in Calls : \A k \in TLSRuns(c) :
        LET a == attempts[c][k]
            tr == a.trace
        IN  /\ (a.done /\ a.err = Nil) =>
                /\ Len(tr) >= 3
                /\ OpNames(tr) =
                      <<"dial", "newclient", "extension">>
                      \o (IF tr[3].arg THEN <<"auth">> ELSE <<>>)
                      \o <<"mail">> \o Repeat("rcpt", Len(a.to))
                      \o <<"data", "write", "close", "quit">>
                /\ ArgsOf(tr, "rcpt", 1) = a.to
                /\ ArgsOf(tr, "mail", 1) = <<a.from>>
                /\ ArgsOf(tr, "write", 1) = <<a.msg>>
                /\ \A j \in DOMAIN tr : tr[j].ok
            /\ \A j \in Ops(tr, "data") :
                /\ \E h \in Ops(tr, "mail") : h < j /\ tr[h].ok
                /\ ArgsOf(SubSeq(tr, 1, j - 1), "rcpt", 1) = a.to
                /\ \A h \in Ops(tr, "rcpt") : h < j /\ tr[h].ok

C17_Witness ==
    \E c \in Calls : \E k \in TLSRuns(c) :
        /\ attempts[c][k].done /\ attempts[c][k].err = Nil
        /\ attempts[c][k].trace[3].arg
        /\ to[c] = <<"b@x.io", "a@x.io", "a@x.io">>

\* C19: when Send has returned nil, the last transport invocation ended
\* without error and committed the envelope once on its connection; when it
\* is sendUsingTLS, every recipient of the list was accepted in it, its data
\* close succeeded and its QUIT succeeded.
C19_SuccessMeansCommitted ==
    \A c \in Calls :
        (pc[c] = "returned" /\ ret[c] = Nil) =>
            /\ attempts[c] # <<>>
            /\ LET a == attempts[c][Cur(c)]
                   tr == a.trace
               IN  /\ a.done /\ a.err = Nil
                   /\ conn[c] # 0
                   /\ conns[conn[c]].owner = c
                   /\ conns[conn[c]].tls = (a.fn = "sendUsingTLS")
                   /\ conns[conn[c]].committed = 1
                   /\ tr[Len(tr)].op = "quit" /\ tr[Len(tr)].ok
                   /\ a.fn = "sendUsingTLS" =>
                        /\ ArgsOf(tr, "rcpt", 1) = a.to
                        /\ \A j \in Ops(tr, "rcpt") : tr[j].ok
                        /\ Cardinality(Ops(tr, "close")) = 1
                        /\ \A j \in Ops(tr, "close") : tr[j].ok

C19_Witness ==
    \E c \in Calls :
        /\ pc[c] = "returned" /\ ret[c] = Nil
        /\ Len(attempts[c]) = 2
        /\ Len(to[c]) = 2

\* C16: a call of SendOTP or SendPasswordReset is one Send with the
\* recipient list [to], the fixed subject of that sender and the template
\* body with the code or link in it; the envelope carries that subject and
\* body; the transports are those Send selects for the port; and the sender
\* returns what its Send returned.
C16_ConvenienceSenders ==
    \A c \in Calls :
        entry[c].fn \in {"SendOTP", "SendPasswordReset"} =>
            /\ pc[c] # "idle"
            /\ to[c] = <<entry[c].to>>
            /\ subject[c] = IF entry[c].fn = "SendOTP"
                              THEN <<"Your verification code">>
                              ELSE <<"Password reset request">>
            /\ body[c] = IF entry[c].fn = "SendOTP"
                           THEN <<"<p>Your verification code is <strong>", entry[c].arg,
                                  "</strong>. It will expire in 10 minutes.</p>">>
                           ELSE <<"<p>We received a request to reset your password. Use the code below or click the link:</p><p><strong>",
                                  entry[c].arg, "</strong></p>">>
            /\ \E j \in DOMAIN body[c] : body[c][j] = entry[c].arg
            /\ FieldValues(msg[c], "Subject") = <<subject[c]>>
            /\ SubSeq(msg[c], Len(msg[c]) - Len(body[c]) + 1, Len(msg[c])) = body[c]
            /\ Len(attempts[c]) \in 1..2
            /\ attempts[c][1].fn = IF cfg.Port = 465 THEN "sendUsingTLS" ELSE "SendMail"
            /\ \A k \in DOMAIN attempts[c] :
                 attempts[c][k].to = <<entry[c].to>> /\ attempts[c][k].msg = msg[c]
            /\ Len(attempts[c]) = 2 => (FirstFailed(c) /\ attempts[c][2].fn = "sendUsingTLS")
            /\ entry[c].done =>
                 (pc[c] = "returned" /\ entry[c].result = ret[c]
                  /\ ret[c] = attempts[c][Cur(c)].err)

C16_Witness ==
    \E c \in Calls :
        /\ entry[c].fn = "SendPasswordReset"
        /\ entry[c].arg = "https://x/reset/abc"
        /\ entry[c].done
        /\ entry[c].result = <<"rcpt to ", "b@x.io", " failed: ", "554 rejected">>
        /\ Len(attempts[c]) = 2

\* The BCRYPT_COST values that are decimal integers, with their value.
IntegerValues ==
    {<< <<"4">>, 4 >>, << <<"1", "2">>, 12 >>, << <<"3", "2">>, 32 >>,
     << <<"+", "5">>, 5 >>, << <<"-", "3">>, 0 - 3 >>}

\* C20: every Hash call passed to the hash function the cost that the
\* BCRYPT_COST of the moment of the call gives: the default cost 10 when it is
\* unset, empty or no integer, and its integer value otherwise; so a call
\* after a change of BCRYPT_COST uses the changed value.
C20_CostFromEnvironment ==
    \A k \in DOMAIN hashLog :
        LET e == hashLog[k].env
            ints == {p \in IntegerValues : e.set /\ p[1] = e.value}
        IN  /\ ints = {} => hashLog[k].cost = 10
            /\ \A p \in ints : hashLog[k].cost = p[2]

C20_Witness ==
    /\ Len(hashLog) = 2
    /\ hashLog[1].env = [set |-> TRUE, value |-> <<"1", "2">>] /\ hashLog[1].cost = 12
    /\ hashLog[2].env = [set |-> TRUE, value |-> <<"1", "2", "x">>] /\ hashLog[2].cost = 10

\* The state of call c alone.
CallState(c) ==
    <<pc[c], to[c], subject[c], body[c], entry[c], from[c], msg[c], i[c], conn[c], ret[c],
      attempts[c]>>

\* Every operation of a trace succeeded.
AllOk(tr) == \A j \in DOMAIN tr : tr[j].ok

\* Connections are not shared, and what a call transmits and returns is given
\* by its arguments, the configuration and the relay's answers to it.
OwnConnectionOwnOutcome ==
    \A c \in Calls :
        /\ conn[c] # 0 => conns[conn[c]].owner = c
        /\ \A d \in Calls \ {c} : conn[c] # 0 => conn[d] # conn[c]
        /\ msg[c] # <<>> =>
               \E o \in HeaderOrders :
                   msg[c] = BuildEnvelope(IF cfg.From = "" THEN cfg.Username ELSE cfg.From,
                                          to[c], subject[c], body[c], o)
        /\ \A k \in DOMAIN attempts[c] :
               /\ attempts[c][k].msg = msg[c] /\ attempts[c][k].to = to[c]
               /\ attempts[c][k].done =>
                      (attempts[c][k].err = <<>> <=> AllOk(attempts[c][k].trace))
        /\ (pc[c] = "returned" /\ Len(to[c]) > 0) =>
               ret[c] = attempts[c][Len(attempts[c])].err

\* A step is a step of one call: the other calls and their connections are
\* as before, and so is the configuration.
StepOfOneCall ==
    /\ cfg' = cfg
    /\ \E c \in Calls :
         /\ \A d \in Calls \ {c} : CallState(d)' = CallState(d)
         /\ Len(conns') >= Len(conns)
         /\ \A k \in DOMAIN conns' :
               \/ k \in DOMAIN conns /\ conns'[k] = conns[k]
               \/ conns'[k].owner = c

\* C14: in every interleaving of two concurrent Send calls on one Client, no
\* step changes the configuration, no connection is used by two calls, a step
\* of one call leaves the other call and its connections untouched, and each
\* call's envelope and result are those given by its own arguments, the
\* configuration and the outcomes of the operations on its own connections.
C14_ConcurrentCallsIndependent ==
    []OwnConnectionOwnOutcome /\ [][StepOfOneCall]_vars

C14_Witness ==
    /\ cfg.Port = 587
    /\ Len(conns) = 3
    /\ conns[1].owner = 1 /\ conns[2].owner = 2 /\ conns[3].owner = 1
    /\ pc[1] = "returned" /\ pc[2] = "returned"
    /\ ret[1] = <<>> /\ ret[2] # <<>>
    /\ to[1] # to[2]

\* The positions of Send inside sendUsingTLS.
TLSPositions ==
    {"tls_dial", "tls_newclient", "tls_extension", "tls_auth", "tls_mail", "tls_rcpt",
     "tls_data", "tls_write", "tls_close", "tls_quit"}

\* The transports a call has invoked, in order.
Path(c) == [k \in DOMAIN attempts[c] |-> attempts[c][k].fn]

\* At most one fallback, from SendMail to sendUsingTLS and after a failure;
\* on port 465 sendUsingTLS alone, and its result is the result of Send.
OneFallback ==
    \A c \in Calls :
        /\ Path(c) \in {<<>>, <<"SendMail">>, <<"sendUsingTLS">>, <<"SendMail", "sendUsingTLS">>}
        /\ Len(Path(c)) = 2 => attempts[c][1].done /\ attempts[c][1].err # <<>>
        /\ cfg.Port = 465 => Path(c) \in {<<>>, <<"sendUsingTLS">>}
        /\ (cfg.Port = 465 /\ pc[c] = "returned" /\ Path(c) # <<>>) =>
               ret[c] = attempts[c][1].err

\* A call inside sendUsingTLS stays there or returns, and a call that has
\* returned stays returned with its result.
NoWayBack ==
    \A c \in Calls :
        /\ pc[c] \in TLSPositions => pc'[c] \in TLSPositions \cup {"returned"}
        /\ pc[c] = "returned" => pc'[c] = "returned" /\ ret'[c] = ret[c]

\* C18: when every relay operation returns, every Send that was called
\* returns, delivered or failed; it falls back at most once, from SendMail to
\* sendUsingTLS, never from sendUsingTLS to SendMail, and on port 465 a
\* failure of sendUsingTLS is the result of Send.
C18_SendTerminates ==
    /\ []OneFallback
    /\ [][NoWayBack]_vars
    /\ \A c \in Calls : (pc[c] # "idle") ~> (pc[c] = "returned")

C18_Witness ==
    \E c \in Calls :
        /\ pc[c] = "returned"
        /\ Path(c) = <<"SendMail", "sendUsingTLS">>
        /\ Len(to[c]) = MaxRcpt
        /\ ret[c] # <<>>

=============================================================================
